---- MODULE Spec2Model ----
(***************************************************************************)
(* WordWave word-chain game: the room/turn/validation engine.              *)
(*                                                                         *)
(* The store (game_rooms, game_players, game_rounds, game_moves) is the    *)
(* shared state.  Every user runs one GameRoom client whose asynchronous   *)
(* handlers are split at their awaits; the game-actions edge function      *)
(* serves submit_word and start_game requests, split at its awaits too.    *)
(*                                                                         *)
(* A handler of the GameRoom component reads the component state of the    *)
(* render that created it and keeps those values across its awaits:        *)
(*  - handlers bound to the page's controls (handleWordSubmit, startGame,  *)
(*    leaveRoom, rejoinRoom) belong to the latest render, so they read the *)
(*    state as it is when the control is used;                             *)
(*  - useGameSync subscribes in an effect that depends on roomId alone     *)
(*    (useGameSync.ts 389-406), so every change notification runs the      *)
(*    onRoomUpdate of the first render, and fetchRoom is called from the   *)
(*    mount effect (GameRoom 193-208), so it is the first render's too:    *)
(*    both read isMyTurn = false and gameStarted = false (FirstRender);    *)
(*  - the interval of startTurnTimer calls the handleTurnTimeout of the    *)
(*    render that started the countdown.                                   *)
(* A user opens the page from the lobby, signed in (appUser is set).       *)
(* The row-level-security policies of the store are not part of the model. *)
(*                                                                         *)
(* The sync session of a page (useGameSync: channel, reconnect timers,     *)
(* re-reads in flight, the manual refresh control) is followed on its own  *)
(* in SpecSync; the dictionary gate, the normalizers, the turn rotation    *)
(* and the speed bonus are applied to drawn inputs in SpecDictionary,      *)
(* SpecNormalize, SpecTurn and SpecBonus.                                  *)
(***************************************************************************)
EXTENDS Integers, Sequences, FiniteSets, TLC

VARIABLES
  room,        \* the game_rooms row
  players,     \* the game_players rows of the room
  rounds,      \* the game_rounds rows of the room, in insertion order
  moves,       \* the game_moves rows of the room, ordered by created_at
  nextId,      \* next game_players id
  ops,         \* submissions, leaves, requests and failed writes so far
  mounted,     \* per user: the GameRoom page is mounted
  lroom,       \* per user: the `room` component state (NoRoom until loaded)
  isMyTurn,    \* per user: component state
  gameStarted, \* per user: component state
  isSubmitting,\* per user: component state
  timerRef,    \* per user: the turn countdown: "off", "live" or "expired"
  dirty,       \* per user: a change notification awaits its re-read
  sub,         \* per user: the handleWordSubmit call in flight
  startSt,     \* per user: the startGame call in flight
  srv,         \* per request slot: the game-actions request in flight
  pin,         \* inputs of the pure-function specifications
  pout,        \* results of the pure-function specifications
  session      \* the useGameSync session of one page (SpecSync)

vars == <<room, players, rounds, moves, nextId, ops, mounted, lroom, isMyTurn,
          gameStarted, isSubmitting, timerRef, dirty, sub, startSt, srv,
          pin, pout, session>>

storeVars  == <<room, players, rounds, moves, nextId, ops>>
pureVars   == <<pin, pout>>

----------------------------------------------------------------------------
(* Bounds of the model *)

(* word submissions, leaves, edge-function requests and failed store       *)
(* writes that one behaviour may contain                                   *)
MaxOps == 2

Null == "null"                  \* null / undefined of a scalar
NoWord == <<"NULL">>            \* null last_word (no word holds this token)
NoRoom == [status |-> "none"]   \* the `room` state before the first load
Absent == <<>>                  \* a request field that was not sent
Users == {"u1", "u2"}
Host == "u1"

(* The room's configuration (CreateRoomModal slider: 10..30 step 5). *)
RoundTimeSeconds == 10

----------------------------------------------------------------------------
(* Characters and words.  A word is a sequence of one-character strings. *)

LowerLetters == <<"a","b","c","d","e","f","g","h","i","j","k","l","m",
                  "n","o","p","q","r","s","t","u","v","w","x","y","z">>
UpperLetters == <<"A","B","C","D","E","F","G","H","I","J","K","L","M",
                  "N","O","P","Q","R","S","T","U","V","W","X","Y","Z">>

IsLower(c) == \E i \in 1..26 : LowerLetters[i] = c
IsUpper(c) == \E i \in 1..26 : UpperLetters[i] = c
IsLetter(c) == IsLower(c) \/ IsUpper(c)
IsSpace(c) == c = " "

(* String.prototype.toLowerCase / SQL LOWER on one character *)
LowerChar(c) ==
  IF IsUpper(c) THEN LowerLetters[CHOOSE i \in 1..26 : UpperLetters[i] = c]
  ELSE c

toLowerCase(w) == [i \in 1..Len(w) |-> LowerChar(w[i])]

RECURSIVE trimStart(_)
trimStart(w) ==
  IF w # <<>> /\ IsSpace(Head(w)) THEN trimStart(Tail(w)) ELSE w

RECURSIVE trimEnd(_)
trimEnd(w) ==
  IF w # <<>> /\ IsSpace(w[Len(w)]) THEN trimEnd(SubSeq(w, 1, Len(w) - 1))
  ELSE w

trim(w) == trimEnd(trimStart(w))

(* .replace(/[^a-z]/g, "") *)
stripNonLower(w) == SelectSeq(w, IsLower)

(* REGEXP_REPLACE(word, '[^a-zA-Z]', '', 'g') *)
stripNonLetter(w) == SelectSeq(w, IsLetter)

(* GameRoom.handleWordSubmit: trimmedWord.toLowerCase().replace(...) *)
normalizedWordOf(trimmedWord) == stripNonLower(toLowerCase(trimmedWord))

(* useExternalDictionary / game-actions:
   word.toLowerCase().trim().replace(/[^a-z]/g, '') *)
normalizeTrimmed(word) == stripNonLower(trim(toLowerCase(word)))

(* the SQL normalizer without its LOWER *)
normalize_wordKeepsCase(word) == trim(stripNonLetter(word))

(* SQL normalize_word *)
normalize_word(word) == toLowerCase(trim(stripNonLetter(word)))

(* SQL get_last_char *)
get_last_char(word) ==
  LET normalized_word == normalize_word(word)
  IN IF Len(normalized_word) = 0 THEN <<>>
     ELSE <<normalized_word[Len(normalized_word)]>>

(* SQL LEFT(s, 1) and JS charAt(0): the empty string for an empty word *)
charAt0(w) == IF w = <<>> THEN <<>> ELSE <<w[1]>>

(* JS slice(-1) *)
sliceLast(w) == IF w = <<>> THEN <<>> ELSE <<w[Len(w)]>>

----------------------------------------------------------------------------
(* The words of the model *)

W_ARTx   == <<"A","R","T","!">>
W_text   == <<"t","e","x","t">>
W_rain   == <<"r","a","i","n">>
W_art    == <<"a","r","t">>
W_xq     == <<"x","q">>
W_12     == <<"1","2">>
W_blank  == <<" ">>

RawWords == {W_ARTx, W_text, W_xq, W_12, W_blank}

(* getCommonWords(), restricted to the normalized forms of RawWords *)
commonWords == {W_art, W_text, W_rain}

(* dictionary_words seed rows, restricted likewise *)
dictionary_words == {W_art, W_text}

(* the entries the external dictionary services know, restricted likewise *)
apiWords == {W_art, W_text, W_rain}

----------------------------------------------------------------------------
(* Dictionary gate of the client: useExternalDictionary.validateWord.      *)
(* primary and backup are the answers of the two external services:        *)
(* "ok" (2xx with an entry), "notok" (non-2xx) or "throw" (unreachable).   *)

ApiAnswers == {"ok", "notok", "throw"}

(* the local list answering "not a word" whatever the list holds *)
commonWordsRejects(normalizedWord, message) ==
  [isValid |-> FALSE, error |-> message]

commonWordsResult(normalizedWord, message) ==
  LET isCommonWord == normalizedWord \in commonWords
  IN [isValid |-> isCommonWord,
      error   |-> IF isCommonWord THEN Null ELSE message]

validateWord(word, primary, backup) ==
  IF Len(word) < 2
  THEN [isValid |-> FALSE, error |-> "Word too short"]
  ELSE LET normalizedWord == normalizeTrimmed(word) IN
    IF normalizedWord = <<>>
    THEN [isValid |-> FALSE, error |-> "Invalid word format"]
    ELSE IF primary = "throw"
    THEN commonWordsResult(normalizedWord, "Dictionary service unavailable")
    ELSE IF primary = "ok"
    THEN [isValid |-> TRUE, error |-> Null]
    ELSE IF backup = "throw"
    THEN commonWordsResult(normalizedWord, "Dictionary service unavailable")
    ELSE IF backup = "ok"
    THEN [isValid |-> TRUE, error |-> Null]
    ELSE commonWordsResult(normalizedWord, "Word not found in dictionary")

(* an external service answers "ok" only for a word it knows *)
ApiCanAnswer(word, answer) ==
  answer = "ok" => normalizeTrimmed(word) \in apiWords

----------------------------------------------------------------------------
(* Chain rule of the client (handleWordSubmit, "Check chain rule") *)

clientChainMismatch(last_word, normalizedWord) ==
  /\ last_word # NoWord
  /\ last_word # <<>>
  /\ charAt0(normalizedWord) # toLowerCase(sliceLast(last_word))

(* Duplicate query of the client: rows of the room with that normalized word *)
existingMoves(mv, normalizedWord) ==
  {i \in 1..Len(mv) : mv[i].normalized_word = normalizedWord}

----------------------------------------------------------------------------
(* SQL validate_word_chain.  RETURN QUERY appends a row to the result and  *)
(* execution continues, so the result is the sequence of the rows of every *)
(* failing check followed by the 'valid' row.                              *)

ValidMoves(mv) == SelectSeq(mv, LAMBDA m : m.is_valid = TRUE)

last_move_word_of(mv) ==
  IF ValidMoves(mv) = <<>> THEN NoWord
  ELSE ValidMoves(mv)[Len(ValidMoves(mv))].normalized_word

validationRow(is_valid, reason, required_start_char) ==
  [is_valid |-> is_valid, reason |-> reason,
   required_start_char |-> required_start_char]

validate_word_chain(mv, new_word) ==
  LET normalized_new_word == normalize_word(new_word)
      last_move_word == last_move_word_of(mv)
      required_char == IF last_move_word # NoWord
                       THEN get_last_char(last_move_word) ELSE <<>>
      duplicate_count == Cardinality(existingMoves(mv, normalized_new_word))
      emptyRows == IF Len(normalized_new_word) = 0
                   THEN <<validationRow(FALSE, "empty_word", <<>>)>>
                   ELSE <<>>
      chainRows == IF /\ last_move_word # NoWord
                      /\ charAt0(normalized_new_word) # required_char
                   THEN <<validationRow(FALSE, "chain_mismatch", required_char)>>
                   ELSE <<>>
      dupRows == IF duplicate_count > 0
                 THEN <<validationRow(FALSE, "duplicate_word", required_char)>>
                 ELSE <<>>
      dictRows == IF normalized_new_word \notin dictionary_words
                  THEN <<validationRow(FALSE, "not_in_dictionary", required_char)>>
                  ELSE <<>>
  IN emptyRows \o chainRows \o dupRows \o dictRows
       \o <<validationRow(TRUE, "valid", required_char)>>

(* game-actions submit_word: validationResult?.[0] *)
serverValidation(mv, word) == validate_word_chain(mv, word)[1]

----------------------------------------------------------------------------
(* Scoring *)

Max(a, b) == IF a >= b THEN a ELSE b

(* Math.ceil(n / d) for d > 0 *)
Ceil(n, d) == -((-n) \div d)

(* handleWordSubmit, "Calculate points only if valid" *)
speedBonus(round_time_seconds, timeTaken) ==
  Max(0, Ceil((round_time_seconds * 1000 - timeTaken) * 5,
              round_time_seconds * 1000))

clientPoints(isValid, normalizedWord, round_time_seconds, timeTaken) ==
  IF isValid /\ Len(normalizedWord) > 0
  THEN Len(normalizedWord) + speedBonus(round_time_seconds, timeTaken)
  ELSE 0

(* game-actions submit_word, "Calculate points if valid"; timeTaken || 0 *)
orZero(timeTaken) == IF timeTaken = Absent THEN 0 ELSE timeTaken[1]

serverSpeedBonus(timeTaken) ==
  Max(0, Ceil((15000 - orZero(timeTaken)) * 5, 15000))

serverPoints(is_valid, word, timeTaken) ==
  IF is_valid
  THEN Len(normalizeTrimmed(word)) + serverSpeedBonus(timeTaken)
  ELSE 0

----------------------------------------------------------------------------
(* Turn order *)

(* findIndex with the index of an absent user clamped to 0 *)
findIndexClamped(ps, userId) ==
  IF \E i \in 1..Len(ps) : ps[i].user_id = userId
  THEN (CHOOSE i \in 1..Len(ps) : ps[i].user_id = userId) - 1
  ELSE 0

(* Array.prototype.findIndex on user_id, 0-based, -1 when absent *)
findIndex(ps, userId) ==
  IF \E i \in 1..Len(ps) : ps[i].user_id = userId
  THEN (CHOOSE i \in 1..Len(ps) :
          /\ ps[i].user_id = userId
          /\ \A j \in 1..(i - 1) : ps[j].user_id # userId) - 1
  ELSE -1

(* nextTurn / handleWordSubmit "Get next player"; ps is not empty *)
nextPlayerIndex(ps, userId) == (findIndex(ps, userId) + 1) % Len(ps)

nextPlayer(ps, userId) == ps[nextPlayerIndex(ps, userId) + 1]

(* startGame, "Find the first non-host player to go first" *)
firstPlayer(ps, host_id) ==
  LET nonHost == {i \in 1..Len(ps) : ps[i].user_id # host_id}
      lowest == {i \in nonHost :
                   \A j \in nonHost : ps[i].turn_order <= ps[j].turn_order}
  IN IF lowest # {}
     THEN ps[CHOOSE i \in lowest : \A j \in lowest : i <= j]
     ELSE ps[2]

(* players sorted by turn_order; rows with equal turn_order keep the       *)
(* order in which the store returned them, which is not determined         *)
SortedPlayers(rows) ==
  {s \in [1..Cardinality(rows) -> rows] :
     /\ \A i, j \in 1..Cardinality(rows) : i # j => s[i] # s[j]
     /\ \A i \in 1..(Cardinality(rows) - 1) :
          s[i].turn_order <= s[i + 1].turn_order}

----------------------------------------------------------------------------
(* The store and the clients' views *)

Idle == [pc |-> "idle"]

playerRow(id, user_id, turn_order) ==
  [id |-> id, user_id |-> user_id, score |-> 0, turn_order |-> turn_order,
   is_active |-> TRUE]

ActiveRounds == {i \in 1..Len(rounds) : rounds[i].ended_at = Null}

(* the room aggregate as fetchRoom / fetchCompleteRoomData build it *)
typedRoom(ps) ==
  [status |-> room.status, host_id |-> room.host_id,
   round_time_seconds |-> room.round_time_seconds,
   current_round |-> room.current_round,
   current_player_turn |-> room.current_player_turn,
   last_word |-> room.last_word, players |-> ps]

(* postgres_changes: every mounted client is notified of a committed write *)
Notified == [c \in Users |-> dirty[c] \/ mounted[c]]

(* broadcast game_update with self: false *)
Broadcast(sender) == [c \in Users |-> dirty[c] \/ (mounted[c] /\ c # sender)]

(* no input drawn, no result computed *)
NoInput == [players |-> <<>>, current |-> Null]
NoOutput == [done |-> FALSE]

(* a room in its lobby: the host and one guest have joined and opened the  *)
(* page                                                                    *)
InitRoom ==
  /\ room = [status |-> "lobby", host_id |-> Host,
             round_time_seconds |-> RoundTimeSeconds, current_round |-> 0,
             current_player_turn |-> Null, last_word |-> NoWord]
  /\ players = {playerRow(1, "u1", 0), playerRow(2, "u2", 1)}
  /\ rounds = <<>>
  /\ moves = <<>>
  /\ nextId = 3
  /\ ops = 0
  /\ mounted = [c \in Users |-> TRUE]
  /\ lroom = [c \in Users |->
                typedRoom(<<playerRow(1, "u1", 0), playerRow(2, "u2", 1)>>)]
  /\ isMyTurn = [c \in Users |-> FALSE]
  /\ gameStarted = [c \in Users |-> FALSE]
  /\ isSubmitting = [c \in Users |-> FALSE]
  /\ timerRef = [c \in Users |-> "off"]
  /\ dirty = [c \in Users |-> FALSE]
  /\ sub = [c \in Users |-> Idle]
  /\ startSt = [c \in Users |-> Idle]
  /\ srv = Idle

(* no useGameSync session is followed *)
NoSession == [roomId |-> Null]

Init ==
  /\ InitRoom
  /\ pin = NoInput
  /\ pout = NoOutput
  /\ session = NoSession

----------------------------------------------------------------------------
(* Sync: change notification -> authoritative re-read -> onRoomUpdate *)

(* the component state a function of the first render reads *)
FirstRender == [isMyTurn |-> FALSE, gameStarted |-> FALSE]

(* a re-read merged into the page's room, the optimistic last_word kept *)
syncedRoomKeepsWord(prev, updatedRoom) ==
  IF prev = NoRoom THEN updatedRoom
  ELSE [updatedRoom EXCEPT !.last_word = prev.last_word]

(* the page's room after onRoomUpdate's setRoom(updatedRoom) and           *)
(* onPlayerUpdate's setRoom(prev => ({ ...prev, players }))                *)
syncedRoom(prev, updatedRoom) ==
  [updatedRoom EXCEPT !.players = updatedRoom.players]

(* fetchCompleteRoomData(true) with its callbacks onRoomUpdate(typedRoom)  *)
(* and onPlayerUpdate(typedRoom.players), both of the first render         *)
Refetch(c) ==
  /\ mounted[c] /\ dirty[c]
  /\ dirty' = [dirty EXCEPT ![c] = FALSE]
  /\ \E ps \in SortedPlayers(players) :
       LET updatedRoom == typedRoom(ps)
           turnSet == updatedRoom.current_player_turn # Null
           myTurn == updatedRoom.current_player_turn = c
           wasMyTurn == FirstRender.isMyTurn
       IN /\ lroom' = [lroom EXCEPT ![c] = syncedRoom(@, updatedRoom)]
          /\ gameStarted' = [gameStarted EXCEPT ![c] =
                IF updatedRoom.status = "in_game" /\ ~FirstRender.gameStarted
                THEN TRUE ELSE @]
          /\ isMyTurn' = [isMyTurn EXCEPT ![c] =
                            IF turnSet THEN myTurn ELSE @]
          /\ timerRef' = [timerRef EXCEPT ![c] =
                IF turnSet /\ myTurn /\ FirstRender.gameStarted /\ ~wasMyTurn
                THEN "live"
                ELSE IF turnSet /\ ~myTurn THEN "off" ELSE @]
  /\ UNCHANGED <<storeVars, mounted, isSubmitting, sub, startSt,
                 srv, pureVars, session>>

----------------------------------------------------------------------------
(* startGame of the client *)

StartGame(c) ==
  /\ mounted[c] /\ lroom[c] # NoRoom /\ startSt[c].pc = "idle"
  /\ ~gameStarted[c] /\ lroom[c].host_id = c     \* the Start Game button
  /\ IF Len(lroom[c].players) < 2
     THEN UNCHANGED <<lroom, gameStarted, isMyTurn, timerRef, startSt>>
     ELSE LET first == firstPlayer(lroom[c].players, lroom[c].host_id) IN
          /\ lroom' = [lroom EXCEPT ![c] =
                         [@ EXCEPT !.status = "in_game",
                                   !.current_player_turn = first.user_id,
                                   !.current_round = 1,
                                   !.last_word = NoWord]]
          /\ gameStarted' = [gameStarted EXCEPT ![c] = TRUE]
          /\ isMyTurn' = [isMyTurn EXCEPT ![c] = first.user_id = c]
          /\ timerRef' = [timerRef EXCEPT ![c] =
                            IF first.user_id = c THEN "live" ELSE @]
          /\ startSt' = [startSt EXCEPT ![c] =
                           [pc |-> "update", room |-> lroom[c],
                            first |-> first.user_id]]
  /\ UNCHANGED <<storeVars, mounted, isSubmitting, dirty, sub,
                 srv, pureVars, session>>

(* update game_rooms ... .eq("id", roomId) *)
StartGameUpdate(c) ==
  /\ startSt[c].pc = "update"
  /\ room' = [room EXCEPT !.status = "in_game", !.current_round = 1,
                          !.current_player_turn = startSt[c].first,
                          !.last_word = NoWord]
  /\ dirty' = Notified
  /\ startSt' = [startSt EXCEPT ![c] = [@ EXCEPT !.pc = "round"]]
  /\ UNCHANGED <<players, rounds, moves, nextId, ops, mounted, lroom, isMyTurn,
                 gameStarted, isSubmitting, timerRef, sub, srv, pureVars, session>>

(* insert game_rounds round_number 1; broadcast game_started *)
StartGameRound(c) ==
  /\ startSt[c].pc = "round"
  /\ rounds' = Append(rounds, [round_number |-> 1, ended_at |-> Null])
  /\ dirty' = Broadcast(c)
  /\ startSt' = [startSt EXCEPT ![c] = Idle]
  /\ UNCHANGED <<room, players, moves, nextId, ops, mounted, lroom, isMyTurn,
                 gameStarted, isSubmitting, timerRef, sub, srv, pureVars, session>>

----------------------------------------------------------------------------
(* handleWordSubmit of the client, one action per await *)

(* what the countdown shows when a word is submitted: the seconds left of  *)
(* a live countdown, 0 when none is live                                   *)
TimeLeftSamples == {1}
timeLeftOf(c) == IF timerRef[c] = "live" THEN TimeLeftSamples ELSE {0}

(* invocation up to `await validateWord(trimmedWord)` *)
SubmitWord(c, word) ==
  /\ mounted[c] /\ lroom[c] # NoRoom /\ isMyTurn[c] /\ ~isSubmitting[c]
  /\ sub[c].pc = "idle"
  /\ ops < MaxOps
  /\ ops' = ops + 1
  /\ LET trimmedWord == trim(word) IN
     IF trimmedWord = <<>>
     THEN UNCHANGED <<isSubmitting, sub>>     \* "Please enter a word"
     ELSE \E timeLeft \in timeLeftOf(c) :
          /\ isSubmitting' = [isSubmitting EXCEPT ![c] = TRUE]
          /\ sub' = [sub EXCEPT ![c] =
               [pc |-> "validate", room |-> lroom[c], word |-> trimmedWord,
                timeTaken |-> (lroom[c].round_time_seconds - timeLeft) * 1000]]
  /\ UNCHANGED <<room, players, rounds, moves, nextId, mounted, lroom, isMyTurn, gameStarted, timerRef,
                 dirty, startSt, srv, pureVars, session>>

(* validateWord answers; an invalid word ends the handler here *)
SubmitValidated(c) ==
  /\ sub[c].pc = "validate"
  /\ \E primary \in ApiAnswers, backup \in ApiAnswers :
       /\ ApiCanAnswer(sub[c].word, primary)
       /\ ApiCanAnswer(sub[c].word, backup)
       /\ LET validation == validateWord(sub[c].word, primary, backup) IN
          IF ~validation.isValid
          THEN /\ isSubmitting' = [isSubmitting EXCEPT ![c] = FALSE]
               /\ sub' = [sub EXCEPT ![c] = Idle]
          ELSE /\ sub' = [sub EXCEPT ![c] = [@ EXCEPT !.pc = "round"]]
               /\ UNCHANGED isSubmitting
  /\ UNCHANGED <<storeVars, mounted, lroom, isMyTurn, gameStarted, timerRef,
                 dirty, startSt, srv, pureVars, session>>

(* the optimistic update and the three store writes that are issued, from  *)
(* "Calculate points only if valid" to the start of Promise.all            *)
Prepared(c, playerResult, normalizedWord, isValid, validationReason) ==
  LET r == sub[c].room
      points == clientPoints(isValid, normalizedWord, r.round_time_seconds,
                             sub[c].timeTaken)
      next == nextPlayer(r.players, c)
      updatedPlayers == [i \in 1..Len(r.players) |->
                           IF r.players[i].user_id = c
                           THEN [r.players[i] EXCEPT !.score = @ + points]
                           ELSE r.players[i]]
  IN /\ lroom' = [lroom EXCEPT ![c] =
                    IF isValid
                    THEN [r EXCEPT !.last_word = sub[c].word,
                                   !.current_player_turn = next.user_id,
                                   !.players = updatedPlayers]
                    ELSE [r EXCEPT !.current_player_turn = next.user_id]]
     /\ isMyTurn' = [isMyTurn EXCEPT ![c] = FALSE]
     /\ sub' = [sub EXCEPT ![c] =
          [pc |-> "write", room |-> r, word |-> sub[c].word,
           timeTaken |-> sub[c].timeTaken, player |-> playerResult,
           normalizedWord |-> normalizedWord, isValid |-> isValid,
           validationReason |-> validationReason, points |-> points,
           next |-> next.user_id,
           pending |-> IF isValid THEN {"move", "score", "room"}
                       ELSE {"move", "room"},
           failed |-> {}]]

(* a countdown that is left running *)
keepTimer(timer) == timer

(* handleWordSubmit, "Clear timer immediately": clearInterval and          *)
(* setTimeLeft(0)                                                          *)
clearTimer(timer) == "off"

(* the round query answers; clear the timer; chain rule *)
SubmitRound(c) ==
  /\ sub[c].pc = "round"
  /\ LET r == sub[c].room
         found == {i \in 1..Len(r.players) : r.players[i].user_id = c}
         normalizedWord == normalizedWordOf(sub[c].word)
     IN
     IF Cardinality(ActiveRounds) # 1          \* .single()
     THEN /\ isSubmitting' = [isSubmitting EXCEPT ![c] = FALSE]
          /\ sub' = [sub EXCEPT ![c] = Idle]
          /\ UNCHANGED <<lroom, isMyTurn, timerRef>>
     ELSE IF found = {}
     THEN /\ isSubmitting' = [isSubmitting EXCEPT ![c] = FALSE]
          /\ sub' = [sub EXCEPT ![c] = Idle]
          /\ UNCHANGED <<lroom, isMyTurn, timerRef>>
     ELSE /\ timerRef' = [timerRef EXCEPT ![c] = clearTimer(@)]
          /\ UNCHANGED isSubmitting
          /\ IF clientChainMismatch(r.last_word, normalizedWord)
             THEN Prepared(c, r.players[CHOOSE i \in found : TRUE],
                           normalizedWord, FALSE, "chain_mismatch")
             ELSE /\ sub' = [sub EXCEPT ![c] =
                       [pc |-> "dup", room |-> r, word |-> sub[c].word,
                        timeTaken |-> sub[c].timeTaken,
                        player |-> r.players[CHOOSE i \in found : TRUE],
                        normalizedWord |-> normalizedWord]]
                  /\ UNCHANGED <<lroom, isMyTurn>>
  /\ UNCHANGED <<storeVars, mounted, gameStarted, dirty, startSt, srv, pureVars, session>>

(* the duplicate query answers *)
SubmitDuplicates(c) ==
  /\ sub[c].pc = "dup"
  /\ IF existingMoves(moves, sub[c].normalizedWord) # {}
     THEN Prepared(c, sub[c].player, sub[c].normalizedWord, FALSE,
                   "duplicate_word")
     ELSE Prepared(c, sub[c].player, sub[c].normalizedWord, TRUE, "valid")
  /\ UNCHANGED <<storeVars, mounted, gameStarted, isSubmitting, timerRef,
                 dirty, startSt, srv, pureVars, session>>

moveRow(user_id, word, normalized_word, is_valid, validation_reason, time_taken_ms, points_awarded) ==
  [user_id |-> user_id, word |-> word, normalized_word |-> normalized_word,
   is_valid |-> is_valid, validation_reason |-> validation_reason,
   time_taken_ms |-> time_taken_ms, points_awarded |-> points_awarded]

(* one of the writes of Promise.all reaches the store *)
SubmitWrite(c, w) ==
  /\ sub[c].pc = "write" /\ w \in sub[c].pending
  /\ sub' = [sub EXCEPT ![c] = [@ EXCEPT !.pending = @ \ {w}]]
  /\ moves' = IF w = "move"
              THEN Append(moves,
                     moveRow(c, sub[c].word, sub[c].normalizedWord,
                             sub[c].isValid, sub[c].validationReason,
                             sub[c].timeTaken,
                             IF sub[c].isValid THEN sub[c].points ELSE 0))
              ELSE moves
  /\ players' = IF w = "score"
                THEN {IF p.id = sub[c].player.id
                      THEN [p EXCEPT !.score = sub[c].player.score + sub[c].points]
                      ELSE p : p \in players}
                ELSE players
  /\ room' = IF w = "room"
             THEN [room EXCEPT
                     !.last_word = IF sub[c].isValid THEN sub[c].word ELSE @,
                     !.current_player_turn = sub[c].next]
             ELSE room
  /\ dirty' = Notified
  /\ UNCHANGED <<rounds, nextId, ops, mounted, lroom, isMyTurn, gameStarted,
                 isSubmitting, timerRef, startSt, srv, pureVars, session>>

(* one of the writes of Promise.all is refused by the store or does not    *)
(* reach it.  The query builder resolves to { data: null, error } in both  *)
(* cases and the handler does not read the elements of the result, so the  *)
(* other writes and the rest of the handler go on as after a success.      *)
SubmitWriteFails(c, w) ==
  /\ sub[c].pc = "write" /\ w \in sub[c].pending
  /\ ops < MaxOps
  /\ ops' = ops + 1
  /\ sub' = [sub EXCEPT ![c] = [@ EXCEPT !.pending = @ \ {w},
                                         !.failed = @ \cup {w}]]
  /\ UNCHANGED <<room, players, rounds, moves, nextId, mounted, lroom,
                 isMyTurn, gameStarted, isSubmitting, timerRef, dirty,
                 startSt, srv, pureVars, session>>

(* Promise.all resolves: broadcast word_submitted; finally *)
SubmitDone(c) ==
  /\ sub[c].pc = "write" /\ sub[c].pending = {}
  /\ dirty' = Broadcast(c)
  /\ isSubmitting' = [isSubmitting EXCEPT ![c] = FALSE]
  /\ sub' = [sub EXCEPT ![c] = Idle]
  /\ UNCHANGED <<storeVars, mounted, lroom, isMyTurn, gameStarted, timerRef,
                 startSt, srv, pureVars, session>>

----------------------------------------------------------------------------
(* Turn countdown: the interval callback reaches prev <= 1 *)

(* handleTurnTimeout of the render that started the countdown.  A          *)
(* countdown is started by fetchRoom, whose render is the first one, or by *)
(* startGame when the host goes first; the isMyTurn they read is false, so *)
(* the guard `if (!isMyTurn || !room || !appUser) return` ends the handler *)
(* after it has cleared the interval: nextTurn is not reached.             *)
TurnTimeout(c) ==
  /\ timerRef[c] = "live"
  /\ ~FirstRender.isMyTurn
  /\ timerRef' = [timerRef EXCEPT ![c] = "expired"]
  /\ UNCHANGED <<storeVars, mounted, lroom, isMyTurn, gameStarted,
                 isSubmitting, dirty, sub, startSt, srv, pureVars, session>>

----------------------------------------------------------------------------
(* Leaving, coming back to the page, rejoining *)

ClientIdle(c) ==
  sub[c].pc = "idle" /\ startSt[c].pc = "idle"

(* leaveRoom: delete the user's game_players row, navigate to the lobby;   *)
(* the page unmounts, its countdown and its sync session are released      *)
LeaveRoom(c) ==
  /\ mounted[c] /\ ClientIdle(c)
  /\ ops < MaxOps
  /\ ops' = ops + 1
  /\ players' = {p \in players : p.user_id # c}
  /\ mounted' = [mounted EXCEPT ![c] = FALSE]
  /\ dirty' = [d \in Users |-> d # c /\ (dirty[d] \/ mounted[d])]
  /\ lroom' = [lroom EXCEPT ![c] = NoRoom]
  /\ isMyTurn' = [isMyTurn EXCEPT ![c] = FALSE]
  /\ gameStarted' = [gameStarted EXCEPT ![c] = FALSE]
  /\ isSubmitting' = [isSubmitting EXCEPT ![c] = FALSE]
  /\ timerRef' = [timerRef EXCEPT ![c] = "off"]
  /\ UNCHANGED <<room, rounds, moves, nextId, sub, startSt, srv,
                 pureVars, session>>

(* the page is opened again: fetchRoom, and the sync session's first fetch *)
MountRoom(c) ==
  /\ ~mounted[c]
  /\ mounted' = [mounted EXCEPT ![c] = TRUE]
  /\ \E ps \in SortedPlayers(players) :
       lroom' = [lroom EXCEPT ![c] = typedRoom(ps)]
  /\ gameStarted' = [gameStarted EXCEPT ![c] = room.status = "in_game"]
  /\ isMyTurn' = [isMyTurn EXCEPT ![c] = room.current_player_turn = c]
  /\ timerRef' = [timerRef EXCEPT ![c] =
        IF room.current_player_turn = c /\ room.status = "in_game"
        THEN "live" ELSE "off"]
  /\ dirty' = [dirty EXCEPT ![c] = TRUE]
  /\ UNCHANGED <<storeVars, isSubmitting, sub, startSt, srv,
                 pureVars, session>>

(* rejoinRoom: insert a row unless the user has one *)
RejoinRoom(c) ==
  /\ mounted[c] /\ lroom[c] # NoRoom /\ ClientIdle(c)
  /\ gameStarted[c]                                 \* the Rejoin Game button
  /\ \A i \in 1..Len(lroom[c].players) : lroom[c].players[i].user_id # c
  /\ IF \E p \in players : p.user_id = c
     THEN UNCHANGED <<players, nextId, dirty>>
     ELSE /\ players' = players \cup
                {playerRow(nextId, c, Len(lroom[c].players))}
          /\ nextId' = nextId + 1
          /\ dirty' = Notified
  /\ UNCHANGED <<room, rounds, moves, ops, mounted, lroom, isMyTurn,
                 gameStarted, isSubmitting, timerRef, sub, startSt, srv, pureVars, session>>

----------------------------------------------------------------------------
(* The game-actions edge function *)

SrvTimes == {<<5000>>}
SrvWords == {W_rain, W_text}

(* submit_word: the request arrives; rpc validate_word_chain *)
SrvSubmitWord(userId, word, timeTaken) ==
  /\ srv.pc = "idle"
  /\ ops < MaxOps
  /\ ops' = ops + 1
  /\ srv' = [pc |-> "round", action |-> "submit_word", userId |-> userId,
             word |-> word, timeTaken |-> timeTaken,
             validation |-> serverValidation(moves, word)]
  /\ UNCHANGED <<room, players, rounds, moves, nextId, mounted, lroom,
                 isMyTurn, gameStarted, isSubmitting, timerRef, dirty,
                 sub, startSt, pureVars, session>>

(* "Get current round": .single() *)
SrvSubmitRound ==
  /\ srv.pc = "round" /\ srv.action = "submit_word"
  /\ srv' = IF Cardinality(ActiveRounds) # 1 THEN Idle
            ELSE [srv EXCEPT !.pc = "player"]
  /\ UNCHANGED <<storeVars, mounted, lroom, isMyTurn, gameStarted,
                 isSubmitting, timerRef, dirty, sub, startSt, pureVars, session>>

(* "Get player info": .single() *)
SrvSubmitPlayer ==
  /\ srv.pc = "player"
  /\ srv' = IF \E p \in players : p.user_id = srv.userId
            THEN [srv EXCEPT !.pc = "insert"]
            ELSE Idle
  /\ UNCHANGED <<storeVars, mounted, lroom, isMyTurn, gameStarted,
                 isSubmitting, timerRef, dirty, sub, startSt, pureVars, session>>

(* "Insert the move".  For a valid word the score update that follows      *)
(* calls supabaseClient.raw, which supabase-js does not have: the handler  *)
(* throws there and answers 500, so neither score nor last_word is written *)
SrvSubmitInsert ==
  /\ srv.pc = "insert"
  /\ moves' = Append(moves,
       moveRow(srv.userId, srv.word, normalizeTrimmed(srv.word),
               srv.validation.is_valid, srv.validation.reason,
               orZero(srv.timeTaken),
               serverPoints(srv.validation.is_valid, srv.word, srv.timeTaken)))
  /\ dirty' = Notified
  /\ srv' = Idle
  /\ UNCHANGED <<room, players, rounds, nextId, ops, mounted, lroom,
                 isMyTurn, gameStarted, isSubmitting, timerRef, sub,
                 startSt, pureVars, session>>

(* start_game: update game_rooms ... .eq('id', roomId).eq('host_id', userId) *)
SrvStartGame(userId) ==
  /\ srv.pc = "idle"
  /\ ops < MaxOps
  /\ ops' = ops + 1
  /\ srv' = [pc |-> "round", action |-> "start_game", userId |-> userId]
  /\ IF room.host_id = userId
     THEN /\ room' = [room EXCEPT !.status = "in_game", !.current_round = 1]
          /\ dirty' = Notified
     ELSE UNCHANGED <<room, dirty>>
  /\ UNCHANGED <<players, rounds, moves, nextId, mounted, lroom, isMyTurn,
                 gameStarted, isSubmitting, timerRef, sub, startSt, pureVars, session>>

(* start_game: "Create first round" *)
SrvStartRound ==
  /\ srv.pc = "round" /\ srv.action = "start_game"
  /\ rounds' = Append(rounds, [round_number |-> 1, ended_at |-> Null])
  /\ srv' = Idle
  /\ UNCHANGED <<room, players, moves, nextId, ops, mounted, lroom,
                 isMyTurn, gameStarted, isSubmitting, timerRef, dirty,
                 sub, startSt, pureVars, session>>

----------------------------------------------------------------------------
Next ==
  \/ \E c \in Users : Refetch(c)
  \/ \E c \in Users : StartGame(c)
  \/ \E c \in Users : StartGameUpdate(c)
  \/ \E c \in Users : StartGameRound(c)
  \/ \E c \in Users, word \in RawWords : SubmitWord(c, word)
  \/ \E c \in Users : SubmitValidated(c)
  \/ \E c \in Users : SubmitRound(c)
  \/ \E c \in Users : SubmitDuplicates(c)
  \/ \E c \in Users, w \in {"move", "score", "room"} : SubmitWrite(c, w)
  \/ \E c \in Users, w \in {"move", "score", "room"} : SubmitWriteFails(c, w)
  \/ \E c \in Users : SubmitDone(c)
  \/ \E c \in Users : TurnTimeout(c)
  \/ \E c \in Users : LeaveRoom(c)
  \/ \E c \in Users : MountRoom(c)
  \/ \E c \in Users : RejoinRoom(c)
  \/ \E userId \in Users, word \in SrvWords, timeTaken \in SrvTimes :
       SrvSubmitWord(userId, word, timeTaken)
  \/ SrvSubmitRound
  \/ SrvSubmitPlayer
  \/ SrvSubmitInsert
  \/ \E userId \in Users : SrvStartGame(userId)
  \/ SrvStartRound

Spec == Init /\ [][Next]_vars

(* Progress: a step that can be taken is taken.  The store answers every   *)
(* query, every timer fires and every notification is delivered; the users *)
(* go on playing while they can.                                           *)
SpecLive == Spec /\ WF_vars(Next)

----------------------------------------------------------------------------
(* A room as the page may find it in the store: in its lobby, or finished  *)
(* (game_rooms.status admits 'lobby', 'in_game' and 'finished'; the room   *)
(* list shows finished rooms).  The finished room has had its round 1,     *)
(* which is closed; its current_player_turn is the guest or is not set.    *)

StoredRooms ==
  {[status |-> "lobby", host_id |-> Host,
    round_time_seconds |-> RoundTimeSeconds, current_round |-> 0,
    current_player_turn |-> Null, last_word |-> NoWord]}
  \cup
  {[status |-> "finished", host_id |-> Host,
    round_time_seconds |-> RoundTimeSeconds, current_round |-> 1,
    current_player_turn |-> t, last_word |-> NoWord] : t \in {Null, "u2"}}

(* the state after both users have opened the page: fetchRoom *)
InitStored ==
  /\ room \in StoredRooms
  /\ players = {playerRow(1, "u1", 0), playerRow(2, "u2", 1)}
  /\ rounds = IF room.status = "lobby" THEN <<>>
              ELSE <<[round_number |-> 1, ended_at |-> "closed"]>>
  /\ moves = <<>>
  /\ nextId = 3
  /\ ops = 0
  /\ mounted = [c \in Users |-> TRUE]
  /\ lroom = [c \in Users |->
                typedRoom(<<playerRow(1, "u1", 0), playerRow(2, "u2", 1)>>)]
  /\ isMyTurn = [c \in Users |-> room.current_player_turn = c]
  /\ gameStarted = [c \in Users |-> room.status = "in_game"]
  /\ isSubmitting = [c \in Users |-> FALSE]
  /\ timerRef = [c \in Users |-> "off"]
  /\ dirty = [c \in Users |-> FALSE]
  /\ sub = [c \in Users |-> Idle]
  /\ startSt = [c \in Users |-> Idle]
  /\ srv = Idle
  /\ pin = NoInput
  /\ pout = NoOutput
  /\ session = NoSession

SpecStored == InitStored /\ [][Next]_vars

----------------------------------------------------------------------------
(* Turn advance as a function of the list of players and the current       *)
(* player: every list of up to MaxPlayers players in turn order, every     *)
(* current player, one more user who is in no list, and no current player  *)

MaxPlayers == 3

UserNames == <<"u1", "u2", "u3", "u4", "u5">>
TurnUsers == {UserNames[i] : i \in 1..MaxPlayers}

PlayerLists ==
  UNION {{[i \in 1..n |-> playerRow(i, us[i], i - 1)] :
            us \in {f \in [1..n -> TurnUsers] :
                      \A i, j \in 1..n : i # j => f[i] # f[j]}} :
         n \in 1..MaxPlayers}

TurnInputs ==
  {[players |-> ps, current |-> u] :
     ps \in PlayerLists, u \in TurnUsers \cup {UserNames[MaxPlayers + 1], Null}}

InitTurn ==
  /\ InitRoom
  /\ pin \in TurnInputs
  /\ pout = NoOutput
  /\ session = NoSession

(* nextTurn / handleWordSubmit "Get next player" applied to the input *)
Advance ==
  /\ ~pout.done
  /\ pout' = [done |-> TRUE, next |-> nextPlayer(pin.players, pin.current)]
  /\ UNCHANGED <<storeVars, mounted, lroom, isMyTurn, gameStarted,
                 isSubmitting, timerRef, dirty, sub, startSt, srv, pin, session>>

SpecTurn == InitTurn /\ [][Advance]_vars

----------------------------------------------------------------------------
(* The speed bonus as a function of the round time and the time taken:     *)
(* every round time the create-room slider offers, and the times taken     *)
(* from MaxTimeSteps steps below zero to MaxTimeSteps steps above it.  The *)
(* client computes timeTaken from its countdown, so it lies within the     *)
(* round; the edge function takes it from the request as it comes.         *)

MaxTimeSteps == 14
TimeStepMs == 2500

RoundTimes == {10, 15, 20, 25, 30}

BonusInputs ==
  {[round_time_seconds |-> r, timeTaken |-> k * TimeStepMs] :
     r \in RoundTimes, k \in (-MaxTimeSteps)..MaxTimeSteps}

InitBonus ==
  /\ InitRoom
  /\ pin \in BonusInputs
  /\ pout = NoOutput
  /\ session = NoSession

(* handleWordSubmit, "Calculate points only if valid": the speed bonus *)
ClientBonus ==
  /\ ~pout.done
  /\ pin.timeTaken \in 0..(pin.round_time_seconds * 1000)
  /\ pout' = [done |-> TRUE, path |-> "client",
              bonus |-> speedBonus(pin.round_time_seconds, pin.timeTaken)]
  /\ UNCHANGED <<storeVars, mounted, lroom, isMyTurn, gameStarted,
                 isSubmitting, timerRef, dirty, sub, startSt, srv, pin, session>>

(* game-actions submit_word, "Calculate points if valid": the speed bonus *)
ServerBonus ==
  /\ ~pout.done
  /\ pout' = [done |-> TRUE, path |-> "server",
              bonus |-> serverSpeedBonus(<<pin.timeTaken>>)]
  /\ UNCHANGED <<storeVars, mounted, lroom, isMyTurn, gameStarted,
                 isSubmitting, timerRef, dirty, sub, startSt, srv, pin, session>>

SpecBonus == InitBonus /\ [][ClientBonus \/ ServerBonus]_vars

----------------------------------------------------------------------------
(* The dictionary gate as a function of the submitted word and of the      *)
(* answers of the two external services, for every word of the model, a    *)
(* one-letter word and every pair of answers.                              *)

W_a == <<"a">>

DictionaryWords == RawWords \cup {W_art, W_rain, W_a}

DictionaryInputs ==
  {[word |-> w, primary |-> p, backup |-> b] :
     w \in DictionaryWords, p \in ApiAnswers, b \in ApiAnswers}

InitDictionary ==
  /\ InitRoom
  /\ pin \in DictionaryInputs
  /\ pout = NoOutput
  /\ session = NoSession

(* handleWordSubmit, "Validate word using external dictionary" *)
ValidateWord ==
  /\ ~pout.done
  /\ pout' = [done |-> TRUE,
              result |-> validateWord(pin.word, pin.primary, pin.backup)]
  /\ UNCHANGED <<storeVars, mounted, lroom, isMyTurn, gameStarted,
                 isSubmitting, timerRef, dirty, sub, startSt, srv, pin, session>>

SpecDictionary == InitDictionary /\ [][ValidateWord]_vars

----------------------------------------------------------------------------
(* The normalizers as functions of the raw text: every text of at most     *)
(* MaxWordLen characters over an upper-case letter, lower-case letters, a  *)
(* hyphen, a digit, an exclamation mark and a blank, and the text "Ice-9!".*)

MaxWordLen == 3

NormChars == {"I", "c", "e", "-", "9", "!", " "}

W_Ice9 == <<"I","c","e","-","9","!">>
W_ice  == <<"i","c","e">>

NormInputs ==
  {[word |-> w] :
     w \in {W_Ice9} \cup UNION {[1..n -> NormChars] : n \in 0..MaxWordLen}}

InitNormalize ==
  /\ InitRoom
  /\ pin \in NormInputs
  /\ pout = NoOutput
  /\ session = NoSession

(* handleWordSubmit: word.trim(), then toLowerCase().replace(...) *)
NormalizeClient ==
  /\ ~pout.done
  /\ LET once == normalizedWordOf(trim(pin.word))
     IN pout' = [done |-> TRUE, by |-> "client", once |-> once,
                 twice |-> normalizedWordOf(trim(once))]
  /\ UNCHANGED <<storeVars, mounted, lroom, isMyTurn, gameStarted,
                 isSubmitting, timerRef, dirty, sub, startSt, srv, pin, session>>

(* validateWord and the edge function: toLowerCase().trim().replace(...) *)
NormalizeDictionary ==
  /\ ~pout.done
  /\ LET once == normalizeTrimmed(pin.word)
     IN pout' = [done |-> TRUE, by |-> "dictionary", once |-> once,
                 twice |-> normalizeTrimmed(once)]
  /\ UNCHANGED <<storeVars, mounted, lroom, isMyTurn, gameStarted,
                 isSubmitting, timerRef, dirty, sub, startSt, srv, pin, session>>

(* SQL normalize_word *)
NormalizeSql ==
  /\ ~pout.done
  /\ LET once == normalize_word(pin.word)
     IN pout' = [done |-> TRUE, by |-> "sql", once |-> once,
                 twice |-> normalize_word(once)]
  /\ UNCHANGED <<storeVars, mounted, lroom, isMyTurn, gameStarted,
                 isSubmitting, timerRef, dirty, sub, startSt, srv, pin, session>>

SpecNormalize ==
  InitNormalize /\ [][NormalizeClient \/ NormalizeDictionary \/ NormalizeSql]_vars

----------------------------------------------------------------------------
(* The sync session of one page: useGameSync.  The page shows one of two   *)
(* rooms (the route /room/:roomId keeps the page mounted when the roomId   *)
(* changes).  The store's aggregate of a room is a version number, raised  *)
(* by every committed change; a re-read returns the version it found.      *)
(*                                                                         *)
(* The main effect depends on roomId only, so the channel handlers and the *)
(* reconnect timers of a session call the setupRealtimeSync and the        *)
(* fetchCompleteRoomData of the render in which the roomId was set: a      *)
(* closure is that render's roomId and isRefreshing.                       *)

MaxEvents == 3        \* store changes, channel faults, room changes,
                      \* forced refreshes and failed re-reads of a behaviour

DebounceMs == 300

Rooms == {"r1", "r2"}
Closure(roomId, isRefreshing) ==
  [roomId |-> roomId, isRefreshing |-> isRefreshing]
Closures == {Closure(r, b) : r \in Rooms, b \in BOOLEAN}
Faults == {"CHANNEL_ERROR", "TIMED_OUT", "CLOSED"}
NoChannel == [status |-> "none"]
NoTimeout == [roomId |-> Null]       \* reconnectTimeoutRef.current = null

(* the page has mounted on room r1: fetchRoom has loaded the room, the     *)
(* main effect has run setupRealtimeSync of the first render               *)
InitSession ==
  [roomId |-> "r1", isMounted |-> TRUE, isRefreshing |-> FALSE,
   sinceLastFetch |-> DebounceMs,
   channel |-> [of |-> Closure("r1", FALSE), status |-> "joining"],
   notes |-> 0, removed |-> {}, isConnected |-> FALSE,
   reconnectTimeoutRef |-> NoTimeout, timers |-> {}, reads |-> {},
   stored |-> [r \in Rooms |-> 0],
   view |-> [room |-> "r1", version |-> 0],
   rereads |-> 0, readFailed |-> FALSE, events |-> 0]

(* fetchCompleteRoomData(immediate) of a closure, up to the debounce:      *)
(* nothing, a deferred call, or the re-read                                *)
fetchCompleteRoomData(cl, isMounted, immediate, timeSinceLastFetch) ==
  IF cl.roomId = Null \/ ~isMounted \/ cl.isRefreshing THEN "return"
  ELSE IF ~immediate /\ timeSinceLastFetch < DebounceMs THEN "defer"
  ELSE "fetch"

(* the session after a call of fetchCompleteRoomData(true): the re-read is *)
(* issued and is in flight with the aggregate it will return.  No caller   *)
(* passes immediate = false, the deferred branch is never taken.           *)
AfterFetch(s, cl, byNotification) ==
  IF fetchCompleteRoomData(cl, s.isMounted, TRUE, s.sinceLastFetch) = "fetch"
  THEN [s EXCEPT !.isRefreshing = TRUE,
                 !.sinceLastFetch = 0,
                 !.reads = @ \cup {[room |-> cl.roomId,
                                    version |-> s.stored[cl.roomId]]},
                 !.rereads = IF byNotification THEN @ + 1 ELSE @]
  ELSE s

(* cleanupChannel: removeChannel, channelRef = null, isConnectedRef = false *)
cleanupChannel(s) ==
  [s EXCEPT !.removed = IF s.channel = NoChannel THEN @
                        ELSE @ \cup {s.channel.of},
            !.channel = NoChannel,
            !.notes = 0,
            !.isConnected = FALSE]

(* A pending reconnect timer runs the setupRealtimeSync of a closure; it   *)
(* is held when reconnectTimeoutRef points to it.                          *)
Timer(cl, held) == [of |-> cl, held |-> held]

(* clearTimeout(reconnectTimeoutRef.current); reconnectTimeoutRef = null *)
clearReconnect(s) ==
  IF s.reconnectTimeoutRef = NoTimeout THEN s
  ELSE [s EXCEPT !.timers = {t \in @ : ~t.held},
                 !.reconnectTimeoutRef = NoTimeout]

(* setupRealtimeSync of a closure *)
setupRealtimeSync(s, cl) ==
  IF cl.roomId = Null \/ ~s.isMounted THEN s
  ELSE [cleanupChannel(clearReconnect(s)) EXCEPT
          !.channel = [of |-> cl, status |-> "joining"]]

(* reconnectTimeoutRef.current = setTimeout(... setupRealtimeSync ...) *)
scheduleReconnect(s, cl) ==
  [s EXCEPT !.reconnectTimeoutRef = cl,
            !.timers = {Timer(t.of, FALSE) : t \in @} \cup {Timer(cl, TRUE)}]

(* the subscribe callback of a closure for a fault status *)
onFault(s, cl, status) ==
  IF ~s.isMounted THEN s
  ELSE LET t == [s EXCEPT !.isConnected = FALSE] IN
       IF status = "CLOSED" /\ s.reconnectTimeoutRef # NoTimeout THEN t
       ELSE scheduleReconnect(t, cl)

sessionRest == <<storeVars, mounted, lroom, isMyTurn, gameStarted, isSubmitting, timerRef, dirty, sub, startSt, srv, pureVars>>

(* a write is committed to room r; the channel reports it if it is joined  *)
(* to that room                                                            *)
StoreChange(r) ==
  /\ session.events < MaxEvents
  /\ session' =
       [session EXCEPT
          !.events = @ + 1,
          !.stored[r] = @ + 1,
          !.notes = IF /\ session.channel.status = "SUBSCRIBED"
                       /\ session.channel.of.roomId = r
                    THEN @ + 1 ELSE @]
  /\ UNCHANGED sessionRest

(* a postgres_changes or game_update handler of the channel runs *)
Notification ==
  /\ session.notes > 0
  /\ session.isMounted
  /\ session' = AfterFetch([session EXCEPT !.notes = @ - 1],
                           session.channel.of, TRUE)
  /\ UNCHANGED sessionRest

(* more than the debounce window passes without a re-read being issued *)
WindowElapses ==
  /\ session.sinceLastFetch < DebounceMs
  /\ session' = [session EXCEPT !.sinceLastFetch = DebounceMs, !.rereads = 0]
  /\ UNCHANGED sessionRest

(* a re-read returns its aggregate: the callbacks run, finally *)
ReadCompletes(rd) ==
  /\ rd \in session.reads
  /\ session' =
       [session EXCEPT
          !.reads = @ \ {rd},
          !.view = IF session.isMounted THEN rd ELSE @,
          !.isRefreshing = IF session.isMounted THEN FALSE ELSE @]
  /\ UNCHANGED sessionRest

(* a re-read returns an error: return, finally *)
ReadFails(rd) ==
  /\ rd \in session.reads
  /\ session.events < MaxEvents
  /\ session' =
       [session EXCEPT
          !.events = @ + 1,
          !.reads = @ \ {rd},
          !.readFailed = TRUE,
          !.isRefreshing = IF session.isMounted THEN FALSE ELSE @]
  /\ UNCHANGED sessionRest

(* the subscribe callback: SUBSCRIBED *)
ChannelSubscribed ==
  /\ session.channel.status = "joining"
  /\ session.isMounted
  /\ session' =
       AfterFetch([session EXCEPT !.channel.status = "SUBSCRIBED",
                                  !.isConnected = TRUE],
                  session.channel.of, FALSE)
  /\ UNCHANGED sessionRest

(* the subscribe callback: CHANNEL_ERROR, TIMED_OUT or CLOSED *)
ChannelFault(status) ==
  /\ session.channel # NoChannel
  /\ session.events < MaxEvents
  /\ session' =
       onFault([session EXCEPT !.events = @ + 1,
                               !.channel.status = status,
                               !.notes = 0],
               session.channel.of, status)
  /\ UNCHANGED sessionRest

(* a channel that was removed leaves: its subscribe callback may be told   *)
(* CLOSED                                                                  *)
RemovedChannelCloses(cl) ==
  /\ cl \in session.removed
  /\ \E told \in BOOLEAN :
       session' =
         LET s == [session EXCEPT !.removed = @ \ {cl}]
         IN IF told THEN onFault(s, cl, "CLOSED") ELSE s
  /\ UNCHANGED sessionRest

(* a reconnect timer fires *)
ReconnectTimerFires(t) ==
  /\ t \in session.timers
  /\ session' =
       setupRealtimeSync([session EXCEPT !.timers = @ \ {t}], t.of)
  /\ UNCHANGED sessionRest

(* the Refresh button: forceRefresh of the latest render *)
ForceRefresh ==
  /\ session.isMounted
  /\ session.events < MaxEvents
  /\ session' =
       AfterFetch([session EXCEPT !.events = @ + 1],
                  Closure(session.roomId, session.isRefreshing), FALSE)
  /\ UNCHANGED sessionRest

(* the roomId of the page changes: cleanup of the main effect, the effect  *)
(* of the new render; fetchRoom loads the new room                         *)
ChangeRoom(r) ==
  /\ session.isMounted
  /\ r # session.roomId
  /\ session.events < MaxEvents
  /\ session' =
       LET s == cleanupChannel(clearReconnect(
                  [session EXCEPT !.events = @ + 1, !.roomId = r]))
           t == setupRealtimeSync(s, Closure(r, session.isRefreshing))
       IN [t EXCEPT !.view = [room |-> r, version |-> session.stored[r]]]
  /\ UNCHANGED sessionRest

(* the page unmounts: isMountedRef = false, the cleanups *)
Unmount ==
  /\ session.isMounted
  /\ session' =
       [cleanupChannel([session EXCEPT !.isMounted = FALSE,
                                       !.timers = {t \in @ : ~t.held}])
          EXCEPT !.removed = {}]
  /\ UNCHANGED sessionRest

InitSync ==
  /\ InitRoom
  /\ pin = NoInput
  /\ pout = NoOutput
  /\ session = InitSession

NextSync ==
  \/ \E r \in Rooms : StoreChange(r)
  \/ Notification
  \/ WindowElapses
  \/ \E rd \in session.reads : ReadCompletes(rd)
  \/ \E rd \in session.reads : ReadFails(rd)
  \/ ChannelSubscribed
  \/ \E status \in Faults : ChannelFault(status)
  \/ \E cl \in Closures : RemovedChannelCloses(cl)
  \/ \E t \in session.timers : ReconnectTimerFires(t)
  \/ ForceRefresh
  \/ \E r \in Rooms : ChangeRoom(r)
  \/ Unmount

SpecSync == InitSync /\ [][NextSync]_vars

(* timers fire, re-reads answer, handlers run *)
SpecSyncLive == SpecSync /\ WF_vars(NextSync)

----------------------------------------------------------------------------
(* Properties *)

(* a client's handleWordSubmit issues its writes in this step *)
CommitBegins(c) == sub[c].pc # "write" /\ sub'[c].pc = "write"

(* the edge function receives a submit_word request in this step *)
RequestJudged ==
  srv.pc = "idle" /\ srv'.pc = "round" /\ srv'.action = "submit_word"

(* a valid move with that normalized word is in the room's history *)
ValidMoveWith(normalizedWord) ==
  \E i \in 1..Len(moves) :
    moves[i].is_valid /\ moves[i].normalized_word = normalizedWord

(* C1: in every reachable state the valid moves, in creation order, form a *)
(* legal chain: each valid move after the first starts with the last       *)
(* letter of the valid move before it, and no two valid moves have the     *)
(* same normalized word.                                                   *)
C1_LegalChain ==
  LET v == ValidMoves(moves) IN
    /\ \A i \in 2..Len(v) :
         charAt0(v[i].normalized_word) = sliceLast(v[i - 1].normalized_word)
    /\ \A i, j \in 1..Len(v) :
         i # j => v[i].normalized_word # v[j].normalized_word

(* C2: a submission is committed only if the store's current_player_turn   *)
(* is the submitting user when the commit is made: when a client issues    *)
(* the writes of its submission, and when the edge function inserts the    *)
(* move of a request.                                                      *)
C2_CommitOnTurn ==
  [][/\ \A c \in Users : CommitBegins(c) => room.current_player_turn = c
     /\ (srv.pc = "insert" /\ srv'.pc = "idle")
          => room.current_player_turn = srv.userId]_vars

(* C3: when the countdown of a player expires while that player's          *)
(* submission is being processed, the turn advances exactly once: no       *)
(* timeout advance is made by this program, so the submission, which was   *)
(* made while the countdown was running and ends after the countdown has   *)
(* expired, ends by its commit.                                            *)
C3_TimeoutRace ==
  [][\A c \in Users :
       (/\ sub[c].pc # "idle" /\ sub'[c].pc = "idle"
        /\ sub[c].timeTaken < sub[c].room.round_time_seconds * 1000
        /\ timerRef[c] = "expired")
       => sub[c].pc = "write"]_vars

(* C4: every word submission of the current player that is judged, valid   *)
(* or not, is followed by a turn advance: its handler ends only after it   *)
(* has written current_player_turn, never at the dictionary gate.          *)
C4_TurnWasted ==
  [][\A c \in Users :
       (sub[c].pc \in {"validate", "write"} /\ sub'[c].pc = "idle")
       => (sub[c].pc = "write" /\ "room" \notin sub[c].pending)]_vars

(* C5: in every reachable state current_player_turn is unset or the user   *)
(* id of a player row of the room with is_active = true.                   *)
C5_TurnIsActivePlayer ==
  \/ room.current_player_turn = Null
  \/ \E p \in players :
       p.user_id = room.current_player_turn /\ p.is_active = TRUE

(* C6: turn advance returns the player at (index + 1) mod playerCount,     *)
(* index being the position of the current player in the list sorted by    *)
(* turn_order; from the last player it wraps to the first; when the        *)
(* current player is not in the list it returns the player at index 0.     *)
C6_TurnAdvance ==
  pout.done =>
    LET ps == pin.players
        n == Len(ps)
        at == {i \in 1..n : ps[i].user_id = pin.current}
    IN /\ \A i \in at : pout.next = ps[(i % n) + 1]
       /\ n \in at => pout.next = ps[1]
       /\ at = {} => pout.next = ps[1]

(* C6 witness: three players, advance from the last one gives the first *)
C6_Witness ==
  /\ pout.done
  /\ Len(pin.players) = 3
  /\ pin.current = pin.players[3].user_id
  /\ pout.next = pin.players[1]

(* C7: validation applies its checks in the order empty, chain, duplicate, *)
(* dictionary and stops at the first that fails.  So a word is rejected    *)
(* for the dictionary only if it is not empty after normalization, chains  *)
(* and is no duplicate, and a word that is empty after normalization gets  *)
(* the verdict empty_word, from the client and from the edge function.     *)
C7_FixedOrder ==
  [][/\ \A c \in Users :
          (sub[c].pc = "validate" /\ sub'[c].pc = "idle")
          => LET n == normalizedWordOf(sub[c].word) IN
               /\ n # <<>>
               /\ ~clientChainMismatch(sub[c].room.last_word, n)
               /\ existingMoves(moves, n) = {}
     /\ \A c \in Users :
          (/\ sub[c].pc = "validate" /\ sub'[c].pc # "validate"
           /\ normalizedWordOf(sub[c].word) = <<>>)
          => (sub'[c].pc = "write"
              /\ sub'[c].validationReason = "empty_word")
     /\ RequestJudged
          => (normalize_word(srv'.word) = <<>>
              <=> srv'.validation.reason = "empty_word")]_vars

(* C8: the chain check compares the first letter of the normalized new     *)
(* word with the last letter of the normalized previous valid word: the    *)
(* verdict is chain_mismatch exactly when there is a previous word, its    *)
(* normalized form is not empty and the two letters differ.                *)
C8_ChainRule ==
  [][/\ \A c \in Users :
          (sub[c].pc = "round" /\ sub'[c].pc \in {"dup", "write"})
          => LET prev == sub[c].room.last_word
                 n == normalizedWordOf(sub[c].word)
                 differ == /\ prev # NoWord
                           /\ normalizedWordOf(prev) # <<>>
                           /\ charAt0(n) # sliceLast(normalizedWordOf(prev))
             IN differ <=> (sub'[c].pc = "write"
                            /\ sub'[c].validationReason = "chain_mismatch")
     /\ (RequestJudged /\ normalize_word(srv'.word) # <<>>)
          => LET prev == last_move_word_of(moves)
                 n == normalize_word(srv'.word)
                 differ == /\ prev # NoWord
                           /\ normalize_word(prev) # <<>>
                           /\ charAt0(n) # sliceLast(normalize_word(prev))
             IN differ <=> srv'.validation.reason = "chain_mismatch"]_vars

(* C9: a submission that passes the empty and chain checks is judged       *)
(* duplicate_word exactly when its normalized form is the normalized word  *)
(* of an earlier valid move of the room; invalid moves do not count.       *)
C9_DuplicateRule ==
  [][/\ \A c \in Users :
          (sub[c].pc = "dup" /\ sub'[c].pc = "write")
          => (sub'[c].validationReason = "duplicate_word"
              <=> ValidMoveWith(sub[c].normalizedWord))
     /\ (/\ RequestJudged
         /\ srv'.validation.reason \notin {"empty_word", "chain_mismatch"})
          => (srv'.validation.reason = "duplicate_word"
              <=> ValidMoveWith(normalize_word(srv'.word)))]_vars

(* points of a valid move of L letters made after timeTakenMs in a room of *)
(* roundTimeSeconds                                                        *)
pointsFormula(L, roundTimeSeconds, timeTakenMs) ==
  L + Max(0, Ceil((roundTimeSeconds * 1000 - timeTakenMs) * 5,
                  roundTimeSeconds * 1000))

(* C10: every valid move, whichever code path recorded it, was awarded     *)
(* L + max(0, ceil((roundTimeSeconds*1000 - timeTakenMs) /                 *)
(* (roundTimeSeconds*1000) * 5)) points, L being the length of its         *)
(* normalized word and roundTimeSeconds the room's configured round time.  *)
C10_Points ==
  \A i \in 1..Len(moves) :
    moves[i].is_valid
    => moves[i].points_awarded =
         pointsFormula(Len(moves[i].normalized_word), room.round_time_seconds,
                       moves[i].time_taken_ms)

(* C11: for every time taken the speed bonus is in 0..5: a time taken that *)
(* is zero or negative gives exactly 5, and a time taken greater than the  *)
(* round's budget gives 0.                                                 *)
C11_BonusClamped ==
  pout.done =>
    /\ pout.bonus \in 0..5
    /\ pin.timeTaken <= 0 => pout.bonus = 5
    /\ pin.timeTaken > pin.round_time_seconds * 1000 => pout.bonus = 0

(* the countdown of client c reaches zero in this step *)
TimeoutFires(c) == timerRef[c] = "live" /\ timerRef'[c] = "expired"

(* C12: a turn timeout advances current_player_turn to the next player in  *)
(* turn order and changes nothing else: no move row is inserted, no        *)
(* player's score changes and last_word is unchanged.                      *)
C12_TimeoutAdvancesOnly ==
  [][\A c \in Users :
       TimeoutFires(c)
       => /\ room'.current_player_turn =
               nextPlayer(lroom[c].players, room.current_player_turn).user_id
          /\ moves' = moves
          /\ players' = players
          /\ room'.last_word = room.last_word]_vars

(* C13: a start-game request takes effect only when its actor is the       *)
(* room's host and the room has at least two players; otherwise the status *)
(* is unchanged and no round is created.  A step of the client's startGame *)
(* or of the start_game action that writes the status or inserts a round   *)
(* belongs to a request of the host made with two players or more.         *)
C13_StartRejected ==
  [][/\ \A c \in Users :
          (startSt[c].pc # "idle" /\ (room' # room \/ rounds' # rounds))
          => (c = room.host_id /\ Len(startSt[c].room.players) >= 2)
     /\ (/\ srv.pc = "idle" /\ srv'.pc = "round"
         /\ srv'.action = "start_game"
         /\ ~(srv'.userId = room.host_id /\ Cardinality(players) >= 2))
          => room' = room
     /\ (/\ srv.pc = "round" /\ srv.action = "start_game"
         /\ rounds' # rounds)
          => (srv.userId = room.host_id /\ Cardinality(players) >= 2)]_vars

(* the room leaves its lobby in this step *)
StartTakesEffect == room.status = "lobby" /\ room'.status = "in_game"

(* a start that was accepted ends in this step: the client's startGame     *)
(* after its round insert, the start_game action of the host after its     *)
(* round insert                                                            *)
StartCompletes ==
  \/ \E c \in Users : startSt[c].pc = "round" /\ startSt'[c].pc = "idle"
  \/ /\ srv.pc = "round" /\ srv.action = "start_game" /\ srv'.pc = "idle"
     /\ srv.userId = room.host_id

(* C14: when a lobby room is started its status becomes in_game with       *)
(* current_round 1 and current_player_turn set to the player that follows  *)
(* the host in turn order, who is not the host; when the start has ended,  *)
(* the room is in_game and a round with round_number 1 exists.             *)
C14_StartedRoom ==
  [][/\ (StartTakesEffect /\ players # {})
          => /\ room'.current_round = 1
             /\ room'.current_player_turn \in
                  {nextPlayer(ps, room.host_id).user_id :
                     ps \in SortedPlayers(players)}
             /\ room'.current_player_turn # room.host_id
     /\ StartCompletes
          => /\ room'.status = "in_game"
             /\ \E i \in 1..Len(rounds') : rounds'[i].round_number = 1]_vars

(* C15: in every reachable state at most one round of the room has         *)
(* ended_at = null, and the rounds are numbered 1, 2, 3, ... in the order  *)
(* of their creation, without gap or repetition.                           *)
C15_OneActiveRound ==
  /\ Cardinality(ActiveRounds) <= 1
  /\ \A i \in 1..Len(rounds) : rounds[i].round_number = i

(* C16: a game that has been started eventually reaches the status         *)
(* finished (rounds complete, current_round passes the configured number   *)
(* of rounds, the active round is closed and the room is finished).        *)
C16_GameFinishes ==
  (room.status = "in_game") ~> (room.status = "finished")

(* lobby, in_game, finished in their order *)
StatusRank(status) ==
  CASE status = "lobby" -> 0
    [] status = "in_game" -> 1
    [] status = "finished" -> 2

C18_ScoreMonotone ==
  [][/\ \A p \in players : p.score >= 0
     /\ \A p \in players, q \in players' :
          p.user_id = q.user_id
          => /\ q.score >= p.score
             /\ q.score # p.score
                  => /\ sub[p.user_id].pc = "write"
                     /\ sub[p.user_id].isValid
                     /\ "score" \in sub[p.user_id].pending]_vars

(* C19: in every reachable state the turn_order values of the players of   *)
(* the room are pairwise distinct, also after a player has left and come   *)
(* back.                                                                   *)
C19_TurnOrderDistinct ==
  \A p, q \in players : p # q => p.turn_order # q.turn_order

(* the store writes a commit issues *)
CommitWrites(isValid) ==
  IF isValid THEN {"move", "score", "room"} ELSE {"move", "room"}

(* C20: the move insert, the score update and the room update of a commit  *)
(* are one unit: when the handler of a commit ends and one of its writes   *)
(* has failed, none of its writes is in the store and the client does not  *)
(* keep its optimistic turn and last_word, it shows the store's.           *)
C20_CommitIsOneUnit ==
  [][\A c \in Users :
       (/\ sub[c].pc = "write" /\ sub'[c].pc = "idle"
        /\ sub[c].failed # {})
       => /\ CommitWrites(sub[c].isValid) \subseteq sub[c].failed
          /\ lroom'[c].current_player_turn = room'.current_player_turn
          /\ lroom'[c].last_word = room'.last_word]_vars

(* neither external service gave a success answer for the input *)
LookupFailed ==
  \/ pin.primary = "throw"
  \/ pin.primary = "notok" /\ pin.backup \in {"notok", "throw"}

(* C26: when the external dictionary lookup is unreachable or answers with *)
(* a non-success status, validateWord still returns a result, and for a    *)
(* word that passed the format checks the verdict is the local word        *)
(* list's: valid exactly when the normalized word is in the list; a call   *)
(* that has not returned yet can return.                                   *)
C26_DictionaryFallback ==
  /\ ~pout.done => ENABLED ValidateWord
  /\ (pout.done /\ LookupFailed)
     => /\ pout.result.isValid \in BOOLEAN
        /\ (Len(pin.word) >= 2 /\ normalizeTrimmed(pin.word) # <<>>)
           => pout.result.isValid
                = (normalizeTrimmed(pin.word) \in commonWords)

(* the lookup was unreachable and the local list accepted the word *)
C26_Witness ==
  /\ pout.done
  /\ pin.primary = "throw"
  /\ pout.result.isValid

(* the letters of a text in order, each in lower case, nothing else *)
LettersLowered(w) ==
  LET RECURSIVE go(_)
      go(s) == IF s = <<>> THEN <<>>
               ELSE IF IsLetter(Head(s))
                    THEN <<LowerChar(Head(s))>> \o go(Tail(s))
                    ELSE go(Tail(s))
  IN go(w)

(* C27: every normalizer of the program, applied to any text, returns the  *)
(* text's letters in lower case with every character outside a-z removed;  *)
(* applying it to its own result changes nothing; "Ice-9!" gives "ice".    *)
C27_Normalize ==
  pout.done
  => /\ pout.once = LettersLowered(pin.word)
     /\ \A i \in 1..Len(pout.once) : IsLower(pout.once[i])
     /\ pout.twice = pout.once
     /\ pin.word = W_Ice9 => pout.once = W_ice

(* the SQL normalizer was applied to "Ice-9!" and returned "ice" *)
C27_Witness ==
  /\ pout.done
  /\ pout.by = "sql"
  /\ pin.word = W_Ice9
  /\ pout.once = W_ice

(* a re-read of client c completes and its callbacks run in this step *)
ReReadCompletes(c) == mounted[c] /\ mounted'[c] /\ dirty[c] /\ ~dirty'[c]

(* the page's room shows the store's status, turn, last word and scores *)
ShowsStore(r) ==
  /\ r.status = room.status
  /\ r.current_player_turn = room.current_player_turn
  /\ r.last_word = room.last_word
  /\ Len(r.players) = Cardinality(players)
  /\ \A p \in players :
       \E i \in 1..Len(r.players) :
         r.players[i].user_id = p.user_id /\ r.players[i].score = p.score

LearnsTurnPassed(c) ==
  ReReadCompletes(c) /\ room.current_player_turn \notin {Null, c}

NoCommitInFlight ==
  /\ \A c \in Users : sub[c].pc = "idle" /\ startSt[c].pc = "idle"
  /\ srv.pc = "idle"

(* the sum of points_awarded over the valid moves of a user *)
ValidPointsOf(user_id) ==
  LET RECURSIVE sum(_)
      sum(i) == IF i = 0 THEN 0
                ELSE sum(i - 1)
                     + (IF moves[i].user_id = user_id /\ moves[i].is_valid
                        THEN moves[i].points_awarded ELSE 0)
  IN sum(Len(moves))

(* C29: whenever no commit is in flight, the stored score of each player   *)
(* of the room is the sum of points_awarded over that player's valid       *)
(* moves, and every invalid move carries points_awarded = 0.               *)
C29_ScoreIsSumOfPoints ==
  NoCommitInFlight
  => /\ \A p \in players : p.score = ValidPointsOf(p.user_id)
     /\ \A i \in 1..Len(moves) :
          ~moves[i].is_valid => moves[i].points_awarded = 0

(* the most recently created valid move of the room, if any *)
LatestValidWord ==
  IF ValidMoves(moves) = <<>> THEN NoWord
  ELSE ValidMoves(moves)[Len(ValidMoves(moves))].word

(* C30: whenever no commit is in flight, the room's last_word is the word  *)
(* of the most recently created valid move of the room, and it is unset    *)
(* when the room has no valid move.                                        *)
C30_LastWordIsLatestValidMove ==
  NoCommitInFlight => room.last_word = LatestValidWord

(* the session is connected to the page's room and nothing is under way:   *)
(* no notification waits for its handler, no re-read is in flight, no      *)
(* reconnect is pending                                                    *)
SessionQuiet ==
  /\ session.isMounted
  /\ session.channel.status = "SUBSCRIBED"
  /\ session.channel.of.roomId = session.roomId
  /\ session.notes = 0
  /\ session.reads = {}
  /\ session.timers = {}
  /\ session.removed = {}

(* C21: once the notifications of a connected client have been handled and *)
(* its re-reads have answered, none of them with an error, the page holds  *)
(* the store's aggregate of its room, also when notifications came while   *)
(* an earlier re-read was in flight.                                       *)
C21_ViewConverges ==
  (SessionQuiet /\ ~session.readFailed)
  => session.view = [room |-> session.roomId,
                     version |-> session.stored[session.roomId]]

(* C23: the change notifications handled within one debounce window cause  *)
(* at most one re-read between them.                                       *)
C23_NotificationsCollapse ==
  session.rereads <= 1

(* C24: the page's room state is only written by the callbacks of the      *)
(* session of the room the page shows: after an unmount no callback writes *)
(* it, and after a change of roomId no callback of the old room's session  *)
(* does.                                                                   *)
C24_NoCallbackAfterTeardown ==
  [][session'.view # session.view
     => /\ session'.isMounted
        /\ session'.view.room = session'.roomId]_vars

(* the channel of the page's room r has reported a fault *)
Faulted(r) ==
  /\ session.isMounted
  /\ session.roomId = r
  /\ session.channel.status \in Faults
  /\ session.channel.of.roomId = r

(* a subscription to room r is set up *)
Resubscribed(r) ==
  /\ session.channel.status \in {"joining", "SUBSCRIBED"}
  /\ session.channel.of.roomId = r

(* the channel becomes SUBSCRIBED in this step *)
BecomesSubscribed ==
  session.channel.status # "SUBSCRIBED" /\ session'.channel.status = "SUBSCRIBED"

(* C25: after the channel of the page's room reported CHANNEL_ERROR,       *)
(* TIMED_OUT or CLOSED, a new subscription to that room is set up          *)
(* eventually, unless the page has left the room; and in the step in       *)
(* which a channel becomes SUBSCRIBED a re-read of its room is issued.     *)
C25_Reconnects ==
  /\ \A r \in Rooms :
       Faulted(r) ~> (Resubscribed(r) \/ ~session.isMounted \/ session.roomId # r)
  /\ [][BecomesSubscribed
        => [room |-> session'.channel.of.roomId,
            version |-> session'.stored[session'.channel.of.roomId]]
             \in session'.reads]_vars

====
